---- MODULE Spec2Model ----
(***************************************************************************)
(* A model of mdx_ditaa.py: the DitaaPreprocessor line scanner (run), the  *)
(* rendering sub-step (generate_diagram, generate_image_path) and the      *)
(* configuration resolution of DitaaExtension.                             *)
(*                                                                         *)
(* A Python str is a sequence of one-character strings, so that find,      *)
(* slicing, startswith, endswith, strip, join and the checksum are         *)
(* computed character by character as the code computes them.  None is a  *)
(* one-element sequence holding a four-character word, which no str (a     *)
(* sequence of single characters) equals.                                  *)
(***************************************************************************)
EXTENDS Integers, Sequences, FiniteSets, TLC

\* The longest input document, in lines.
MaxDocLen == 4

None == <<"None">>

(***************************************************************************)
(* Python str primitives                                                   *)
(***************************************************************************)

Min(a, b) == IF a < b THEN a ELSE b

Max(a, b) == IF a > b THEN a ELSE b

\* s[k:] for k >= 0
SliceFrom(s, k) == SubSeq(s, Min(k, Len(s)) + 1, Len(s))

\* s[:k] for k >= 0
SliceTo(s, k) == SubSeq(s, 1, Min(k, Len(s)))

\* s[:-k] for k >= 1
DropLast(s, k) == SubSeq(s, 1, Max(Len(s) - k, 0))

\* s.startswith(t)
StartsWith(s, t) == Len(t) <= Len(s) /\ SubSeq(s, 1, Len(t)) = t

\* s.endswith(t)
EndsWith(s, t) == Len(t) <= Len(s) /\ SubSeq(s, Len(s) - Len(t) + 1, Len(s)) = t

\* s.find(t): the 0-based index of the first occurrence of t in s, or -1
Find(s, t) ==
  LET hits == {k \in 0..(Len(s) - Len(t)) : SubSeq(s, k + 1, k + Len(t)) = t}
  IN  IF hits = {} THEN -1 ELSE CHOOSE k \in hits : \A j \in hits : k <= j

\* s.strip(chars): s without its leading and trailing characters of chars
Strip(s, chars) ==
  LET keep == {k \in 1..Len(s) : s[k] \notin chars}
  IN  IF keep = {} THEN <<>>
      ELSE SubSeq(s, CHOOSE k \in keep : \A j \in keep : k <= j,
                     CHOOSE k \in keep : \A j \in keep : k >= j)

\* sep.join(ss)
RECURSIVE Join(_, _)
Join(sep, ss) ==
  IF Len(ss) = 0 THEN <<>>
  ELSE IF Len(ss) = 1 THEN ss[1]
  ELSE ss[1] \o sep \o Join(sep, Tail(ss))

\* bool(x) of a value that is None or a str
Truthy(x) == x # None /\ x # <<>>

(***************************************************************************)
(* os.path primitives (POSIX)                                              *)
(***************************************************************************)

\* os.path.join(a, b); raises TypeError when a is None
PathJoin(a, b) ==
  IF StartsWith(b, <<"/">>) THEN b
  ELSE IF a = <<>> \/ EndsWith(a, <<"/">>) THEN a \o b
  ELSE a \o <<"/">> \o b

\* os.path.basename(p): what follows the last "/"
Basename(p) ==
  LET slashes == {k \in 1..Len(p) : p[k] = "/"}
  IN  IF slashes = {} THEN p
      ELSE SliceFrom(p, CHOOSE k \in slashes : \A j \in slashes : k >= j)

\* The components of p between "/" separators.
RECURSIVE SplitPath(_)
SplitPath(p) ==
  LET k == Find(p, <<"/">>)
  IN  IF k < 0 THEN <<p>> ELSE <<SliceTo(p, k)>> \o SplitPath(SliceFrom(p, k + 1))

\* os.path.relpath(p, os.getcwd()) of a relative path p that has no ".."
\* component: p with its empty and "." components dropped, "." if none is left.
RelPath(p) ==
  LET parts == SelectSeq(SplitPath(p), LAMBDA c : c # <<>> /\ c # <<".">>)
  IN  IF Len(parts) = 0 THEN <<".">> ELSE Join(<<"/">>, parts)

(***************************************************************************)
(* Literals of the source                                                  *)
(***************************************************************************)

\* The backtick character (U+0060, byte 96).  It is written "~" here: the
\* TLA+ lexer pairs a literal backtick with a later prime.
TICK == "~"

\* run: START_TAG, three backticks and the word ditaa
START_TAG == <<TICK, TICK, TICK, "d", "i", "t", "a", "a">>

\* run: END_TAG, three backticks
END_TAG == <<TICK, TICK, TICK>>

\* run: the annotation key path=
PATH_KEY == <<"p", "a", "t", "h", "=">>

\* run: the characters prefix.strip(" \t>") removes
PREFIX_CHARS == {" ", "\t", ">"}

\* run: the four spaces of the literal-block fallback
INDENT == <<" ", " ", " ", " ">>

\* DitaaExtension.__init__: the default command line, as its words
DEFAULT_CMD == <<"ditaa", "{infile}", "{outfile}", "--overwrite">>

\* DitaaExtension.__init__: the default image directory
DEFAULT_IMAGE_DIR == <<".">>

(***************************************************************************)
(* generate_image_path                                                     *)
(***************************************************************************)

\* The UTF-8 byte of a character of the alphabet of the inputs (all ASCII).
Ord(c) ==
  CASE c = "\n" -> 10  [] c = "\t" -> 9   [] c = " " -> 32  [] c = "=" -> 61
    [] c = ">" -> 62   [] c = "A" -> 65   [] c = TICK -> 96  [] c = "a" -> 97
    [] c = "d" -> 100  [] c = "h" -> 104  [] c = "i" -> 105 [] c = "p" -> 112
    [] c = "t" -> 116  [] c = "x" -> 120  [] c = "/" -> 47  [] c = "." -> 46

\* zlib.adler32 of the bytes of s, as the pair <<a, b>> of its two 16-bit
\* sums: the checksum is b * 2^16 + a, which fits c_uint32 unchanged.
RECURSIVE Adler(_, _, _)
Adler(s, a, b) ==
  IF s = <<>> THEN <<a, b>>
  ELSE LET a2 == (a + Ord(Head(s))) % 65521
       IN  Adler(Tail(s), a2, (b + a2) % 65521)

adler32(s) == Adler(s, 1, 0)

HexDigit(n) ==
  <<"0", "1", "2", "3", "4", "5", "6", "7", "8", "9",
    "a", "b", "c", "d", "e", "f">>[n + 1]

\* "%x" % n
RECURSIVE Hex(_)
Hex(n) == IF n < 16 THEN <<HexDigit(n)>> ELSE Hex(n \div 16) \o <<HexDigit(n % 16)>>

\* n as exactly four hex digits, for n < 2^16
Hex4(n) ==
  <<HexDigit(n \div 4096), HexDigit((n \div 256) % 16),
    HexDigit((n \div 16) % 16), HexDigit(n % 16)>>

\* "%x" % (b * 2^16 + a)
HexOfSums(ab) == IF ab[2] = 0 THEN Hex(ab[1]) ELSE Hex(ab[2]) \o Hex4(ab[1])

\* "diagram-%x.png" % adler32
img_basename(plaintext) ==
  <<"d", "i", "a", "g", "r", "a", "m", "-">> \o HexOfSums(adler32(plaintext))
    \o <<".", "p", "n", "g">>

generate_image_path(cfg, plaintext) ==
  PathJoin(cfg.ditaa_image_dir, img_basename(plaintext))

(***************************************************************************)
(* DitaaExtension: configuration resolution                                *)
(***************************************************************************)

\* d.get(k, default) of a dict d, a function from its keys
Get(d, k, default) == IF k \in DOMAIN d THEN d[k] ELSE default

\* Every dict whose keys are among DOMAIN choices, each key k holding one
\* of choices[k].
DictsOver(choices) ==
  UNION { {d \in [D -> UNION {choices[k] : k \in D}] : \A k \in D : d[k] \in choices[k]}
          : D \in SUBSET DOMAIN choices }

\* Extension.setConfigs(kwargs), which the markdown library runs from
\* Extension.__init__(**kwargs): every key the caller passed is stored over
\* the value the entry holds.
setConfigs(conf, kwargs) ==
  [k \in DOMAIN conf |-> IF k \in DOMAIN kwargs THEN <<kwargs[k], conf[k][2]>> ELSE conf[k]]

\* DitaaExtension.__init__: self.config once the constructor has returned,
\* each entry a pair of value and help text.
ExtensionInit(kwargs, environ) ==
  LET ditaa_cmd0       == Get(kwargs, "ditaa_cmd", DEFAULT_CMD)
      ditaa_image_dir0 == Get(kwargs, "ditaa_image_dir", DEFAULT_IMAGE_DIR)
      extra_copy_path  == Get(kwargs, "extra_copy_path", None)
      ditaa_cmd        == IF "DITAA_CMD" \in DOMAIN environ
                          THEN environ["DITAA_CMD"] ELSE ditaa_cmd0
      ditaa_image_dir  == IF "DITAA_IMAGE_DIR" \in DOMAIN environ
                          THEN environ["DITAA_IMAGE_DIR"] ELSE ditaa_image_dir0
      conf == [ditaa_cmd       |-> <<ditaa_cmd, "help">>,
               ditaa_image_dir |-> <<ditaa_image_dir, "help">>,
               extra_copy_path |-> <<extra_copy_path, "help">>]
  IN  setConfigs(conf, kwargs)

\* Extension.getConfigs(), as extendMarkdown hands it to the preprocessor:
\* each key with the value of its entry.
getConfigs(conf) == [k \in DOMAIN conf |-> conf[k][1]]

(***************************************************************************)
(* generate_diagram                                                        *)
(***************************************************************************)

\* What the operating system does to one rendering attempt.
Outcomes ==
  {"ok", "copy_fails", "mkstemp_src_fails", "mkstemp_out_fails", "write_fails",
   "spawn_fails", "exit_nonzero"}

\* The words of a command line that are replacement fields of str.format.
FIELDS == {"{infile}", "{outfile}", "{}"}

\* ditaa_cmd.format(infile=..., outfile=...) raises on a replacement field
\* other than {infile} and {outfile}: the call passes no other argument.
FormatRaises(cmd) ==
  \E k \in 1..Len(cmd) : cmd[k] \in FIELDS /\ cmd[k] \notin {"{infile}", "{outfile}"}

\* generate_diagram(plaintext) under the outcome env: whether it raised, the
\* value it returned, the temporary files it created and those it unlinked,
\* and the shutil.copy calls it made.
generate_diagram(cfg, plaintext, env) ==
  LET img_dest == generate_image_path(cfg, plaintext)
      raise(created) ==
        [raised |-> TRUE, ret |-> None, created |-> created, unlinked |-> {},
         copy |-> <<>>]
      both == {"ditaasrc", "ditaaout"}
  IN  IF env = "mkstemp_src_fails" THEN raise({})
      ELSE IF env = "mkstemp_out_fails" THEN raise({"ditaasrc"})
      ELSE IF env = "write_fails" THEN raise(both)
      ELSE \* try: ... except Exception: return None  finally: unlink both
        IF FormatRaises(cfg.ditaa_cmd) \/ env \in {"spawn_fails", "exit_nonzero"}
        THEN [raised |-> FALSE, ret |-> None, created |-> both, unlinked |-> both,
              copy |-> <<>>]
        ELSE [raised |-> FALSE, ret |-> RelPath(img_dest), created |-> both,
              unlinked |-> both,
              copy |-> IF Truthy(Get(cfg, "extra_copy_path", None))
                       THEN <<[src |-> img_dest, dst |-> cfg.extra_copy_path,
                               ok |-> env # "copy_fails"]>>
                       ELSE <<>>]

(***************************************************************************)
(* DitaaPreprocessor.run: the scanner                                      *)
(***************************************************************************)

VARIABLES
  environ,       \* os.environ, the two variables the extension reads
  kwargs,        \* the keyword arguments of DitaaExtension(**kwargs)
  ext,           \* DitaaExtension.config, None before construction
  config,        \* DitaaPreprocessor.config, None before extendMarkdown
  pc,            \* "new", "constructed", "scan", "returned" or "raised"
  lines,         \* run: the argument, the document
  i,             \* run: the index in lines of the next ln of the for loop
  new_lines,     \* run: local new_lines
  ditaa_prefix,  \* run: local ditaa_prefix
  ditaa_lines,   \* run: local ditaa_lines
  in_diagram,    \* run: local in_diagram
  path_override, \* run: local path_override
  tmpfiles,      \* the temporary files that exist, each <<name, attempt>>
  copy_calls,    \* the shutil.copy calls made so far
  calls,         \* the plaintext of every generate_diagram call so far
  opened,        \* history: the line that opened the current or last block
  blocks         \* history: one record per block closed so far

vars ==
  <<environ, kwargs, ext, config, pc, lines, i, new_lines, ditaa_prefix,
    ditaa_lines, in_diagram, path_override, tmpfiles, copy_calls, calls,
    opened, blocks>>

\* run, line 122: start = ln.find(START_TAG)
Start(ln) == Find(ln, START_TAG)

\* run, line 123: prefix
Prefix(ln) == IF Start(ln) >= 0 THEN SliceTo(ln, Start(ln)) ELSE <<>>

\* run, line 124: postfix
Postfix(ln) ==
  IF Start(ln) >= 0 THEN SliceFrom(ln, Start(ln) + Len(START_TAG) + 1) ELSE <<>>

\* run, line 125: the line carries a path= annotation
Annotated(ln) == Postfix(ln) # <<>> /\ StartsWith(Postfix(ln), PATH_KEY)

\* run, line 126: the value of the annotation
Annotation(ln) == SliceFrom(Postfix(ln), 5)

\* run, line 127: ln once the annotation is cut off
Cut(ln) == IF Annotated(ln) THEN DropLast(ln, Len(Postfix(ln)) + 1) ELSE ln

\* run, line 130: the line opens a diagram block
IsOpener(ln) ==
  /\ Start(ln) >= 0
  /\ EndsWith(Cut(ln), START_TAG)
  /\ Strip(Prefix(ln), PREFIX_CHARS) = <<>>

\* A closer that only looks at the end of the line.
IsCloserAnyPrefix(ln, prefix) == EndsWith(ln, END_TAG)

\* run, line 101: the line closes the block opened with prefix
IsCloser(ln, prefix) == ln = prefix \o END_TAG

\* run, line 104: the body lines without their first len(prefix) characters
Unprefixed(prefix, dlines) ==
  [k \in 1..Len(dlines) |-> SliceFrom(dlines[k], Len(prefix))]

\* A fallback that forgets the prefix.
md_code_no_prefix(prefix, dlines) == [k \in 1..Len(dlines) |-> INDENT \o dlines[k]]

\* run, line 115: md_code, the literal block of the stripped lines dlines
md_code(prefix, dlines) == [k \in 1..Len(dlines) |-> prefix \o INDENT \o dlines[k]]

\* run, line 112: the image line
ImageLine(prefix, mkdocs_path) ==
  prefix \o <<"!", "[">> \o mkdocs_path \o <<"]", "(">> \o mkdocs_path \o <<")">>

(***************************************************************************)
(* Inputs                                                                  *)
(***************************************************************************)

\* A block-quote prefix.
QUOTE == <<">", " ">>

\* The annotation path=a, after the separating character.
PATH_A == <<" ">> \o PATH_KEY \o <<"a">>

\* The lines documents are made of: openers without and with a prefix and
\* an annotation, the two closers, a body line, a line whose marker follows
\* other text and carries an annotation, and a marker followed by a marker.
LinePool ==
  { START_TAG,
    QUOTE \o START_TAG,
    START_TAG \o PATH_A,
    END_TAG,
    QUOTE \o END_TAG,
    QUOTE \o <<"A">>,
    <<"x">> \o START_TAG \o PATH_A,
    START_TAG \o START_TAG }

Docs == UNION {[1..n -> LinePool] : n \in 1..MaxDocLen}

\* A command line with a replacement field format() cannot fill.
BAD_CMD == <<"ditaa", "{}", "{outfile}">>

KW_CMD == <<"ditaa.sh", "{infile}", "{outfile}">>

ENV_CMD == <<"java", "-jar", "ditaa.jar", "{infile}", "{outfile}">>

KW_DIR == <<"k">>

ENV_DIR == <<"e">>

COPY_DIR == <<"c">>

NoDict == [k \in {} |-> None]

\* The callers and environments of the configuration specification.
AllKwargs ==
  DictsOver([ditaa_cmd |-> {KW_CMD, BAD_CMD}, ditaa_image_dir |-> {KW_DIR},
             extra_copy_path |-> {COPY_DIR}])

AllEnvirons == DictsOver([DITAA_CMD |-> {ENV_CMD}, DITAA_IMAGE_DIR |-> {ENV_DIR}])

\* The callers of the scanner specification: the defaults, an extra-copy
\* directory, a command line that cannot be formatted.
RunKwargs ==
  { NoDict, [extra_copy_path |-> COPY_DIR], [ditaa_cmd |-> BAD_CMD] }

(***************************************************************************)
(* The state machine                                                       *)
(***************************************************************************)

NoBlock == [line |-> 0, path |-> None, out |-> <<>>]

InitLocals ==
  /\ ext = None
  /\ config = None
  /\ pc = "new"
  /\ i = 1
  /\ new_lines = <<>>
  /\ ditaa_prefix = <<>>
  /\ ditaa_lines = <<>>
  /\ in_diagram = FALSE
  /\ path_override = None
  /\ tmpfiles = {}
  /\ copy_calls = <<>>
  /\ calls = <<>>
  /\ opened = NoBlock
  /\ blocks = <<>>

Init ==
  /\ environ = NoDict
  /\ kwargs \in RunKwargs
  /\ lines \in Docs
  /\ InitLocals

InitConfig ==
  /\ environ \in AllEnvirons
  /\ kwargs \in AllKwargs
  /\ lines = <<>>
  /\ InitLocals

\* makeExtension(**kwargs): DitaaExtension.__init__
Construct ==
  /\ pc = "new"
  /\ ext' = ExtensionInit(kwargs, environ)
  /\ pc' = "constructed"
  /\ UNCHANGED <<environ, kwargs, config, lines, i, new_lines, ditaa_prefix,
                 ditaa_lines, in_diagram, path_override, tmpfiles, copy_calls,
                 calls, opened, blocks>>

\* DitaaExtension.extendMarkdown: the preprocessor gets getConfigs(); the
\* host then calls run(lines), whose locals are as initialised.
ExtendMarkdown ==
  /\ pc = "constructed"
  /\ config' = getConfigs(ext)
  /\ pc' = "scan"
  /\ UNCHANGED <<environ, kwargs, ext, lines, i, new_lines, ditaa_prefix,
                 ditaa_lines, in_diagram, path_override, tmpfiles, copy_calls,
                 calls, opened, blocks>>

\* run, lines 126 and 113: path_override after a normal line ln
OverrideAfter(ln) == IF Annotated(ln) THEN Annotation(ln) ELSE path_override

\* run, lines 121-132: a normal line that opens a block
OpenBlock ==
  /\ pc = "scan" /\ i <= Len(lines) /\ ~in_diagram
  /\ IsOpener(lines[i])
  /\ path_override' = OverrideAfter(lines[i])
  /\ in_diagram' = TRUE
  /\ ditaa_prefix' = Prefix(lines[i])
  /\ i' = i + 1
  /\ opened' = [line |-> i,
                path |-> IF Annotated(lines[i]) THEN Annotation(lines[i]) ELSE None,
                out  |-> new_lines]
  /\ UNCHANGED <<environ, kwargs, ext, config, pc, lines, new_lines,
                 ditaa_lines, tmpfiles, copy_calls, calls, blocks>>

\* run, lines 121-134: a normal line that is emitted
EmitLine ==
  /\ pc = "scan" /\ i <= Len(lines) /\ ~in_diagram
  /\ ~IsOpener(lines[i])
  /\ path_override' = OverrideAfter(lines[i])
  /\ new_lines' = Append(new_lines, Cut(lines[i]))
  /\ i' = i + 1
  /\ UNCHANGED <<environ, kwargs, ext, config, pc, lines, ditaa_prefix,
                 ditaa_lines, in_diagram, tmpfiles, copy_calls, calls, opened,
                 blocks>>

\* run, lines 119-120: a line of a diagram
AppendBody ==
  /\ pc = "scan" /\ i <= Len(lines) /\ in_diagram
  /\ ~IsCloser(lines[i], ditaa_prefix)
  /\ ditaa_lines' = Append(ditaa_lines, lines[i])
  /\ i' = i + 1
  /\ UNCHANGED <<environ, kwargs, ext, config, pc, lines, new_lines,
                 ditaa_prefix, in_diagram, path_override, tmpfiles, copy_calls,
                 calls, opened, blocks>>

\* run, lines 101-118: the closing line of a diagram, with the whole call of
\* generate_diagram.  An exception leaves run at once: pc is "raised" and the
\* locals stay as line 104 left them.
CloseBlock ==
  /\ pc = "scan" /\ i <= Len(lines) /\ in_diagram
  /\ IsCloser(lines[i], ditaa_prefix)
  /\ \E env \in Outcomes :
       LET stripped   == Unprefixed(ditaa_prefix, ditaa_lines)
           ditaa_code == Join(<<"\n">>, stripped)
           r          == generate_diagram(config, ditaa_code, env)
           attempt    == Len(calls) + 1
           dir        == IF Truthy(path_override) THEN path_override
                         ELSE config.extra_copy_path
           join_raises == Truthy(r.ret) /\ dir = None
           raises     == r.raised \/ join_raises
       IN  /\ calls' = Append(calls, ditaa_code)
           /\ tmpfiles' = tmpfiles \cup {<<f, attempt>> : f \in r.created \ r.unlinked}
           /\ copy_calls' = copy_calls \o r.copy
           /\ IF raises
              THEN /\ pc' = "raised"
                   /\ ditaa_lines' = stripped
                   /\ UNCHANGED <<i, new_lines, in_diagram, path_override>>
              ELSE /\ pc' = pc
                   /\ i' = i + 1
                   /\ in_diagram' = FALSE
                   /\ ditaa_lines' = <<>>
                   /\ IF Truthy(r.ret)
                      THEN /\ new_lines' = Append(new_lines,
                                ImageLine(ditaa_prefix, PathJoin(dir, Basename(r.ret))))
                           /\ path_override' = None
                      ELSE /\ new_lines' = new_lines \o <<<<>>>>
                                \o md_code(ditaa_prefix, stripped) \o <<<<>>>>
                           /\ path_override' = path_override
           /\ blocks' = Append(blocks,
                [opener |-> opened.line, closer |-> i, prefix |-> ditaa_prefix,
                 body |-> ditaa_lines, path |-> opened.path, ret |-> r.ret,
                 gen_raised |-> r.raised, raised |-> raises, copy |-> r.copy,
                 at |-> Len(new_lines), upto |-> Len(new_lines')])
  /\ UNCHANGED <<environ, kwargs, ext, config, lines, ditaa_prefix, opened>>

\* run, line 135: return new_lines
Return ==
  /\ pc = "scan" /\ i > Len(lines)
  /\ pc' = "returned"
  /\ UNCHANGED <<environ, kwargs, ext, config, lines, i, new_lines, ditaa_prefix,
                 ditaa_lines, in_diagram, path_override, tmpfiles, copy_calls,
                 calls, opened, blocks>>

Next ==
  \/ Construct
  \/ ExtendMarkdown
  \/ OpenBlock
  \/ EmitLine
  \/ AppendBody
  \/ CloseBlock
  \/ Return

Spec == Init /\ [][Next]_vars

NextConfig == Construct \/ ExtendMarkdown

SpecConfig == InitConfig /\ [][NextConfig]_vars

(***************************************************************************)
(* The properties                                                          *)
(***************************************************************************)

Blocks == {blocks[k] : k \in 1..Len(blocks)}

\* The plain text generate_diagram gets for a block.
CodeOf(b) ==
  Join(<<"\n">>, [k \in 1..Len(b.body) |-> SliceFrom(b.body[k], Len(b.prefix))])

\* The rendering sub-step succeeded for block b.
Rendered(b) == ~b.gen_raised /\ b.ret # None

\* The rendering sub-step reported failure for block b.
Failed(b) == ~b.gen_raised /\ b.ret = None

\* The number of leading characters of ln that are a space, a tab or >.
LeadLen(ln) ==
  CHOOSE k \in 0..Len(ln) :
    /\ \A j \in 1..k : ln[j] \in PREFIX_CHARS
    /\ k = Len(ln) \/ ln[k + 1] \notin PREFIX_CHARS

\* A valid opener as the specification words it: after a prefix of spaces,
\* tabs and >, exactly the marker, optionally followed (at once or after
\* one separating character) by a path= annotation.
ValidOpener(ln) ==
  LET rest == SliceFrom(ln, LeadLen(ln))
  IN  \/ rest = START_TAG
      \/ /\ StartsWith(rest, START_TAG)
         /\ \/ StartsWith(SliceFrom(rest, Len(START_TAG)), PATH_KEY)
            \/ StartsWith(SliceFrom(rest, Len(START_TAG) + 1), PATH_KEY)

\* The plain texts of the closed diagram blocks of doc, in document order:
\* each a valid opener followed later by its prefix and three backticks.
RECURSIVE ClosedBlocks(_, _, _, _, _, _)
ClosedBlocks(doc, k, inb, prefix, body, acc) ==
  IF k > Len(doc) THEN acc
  ELSE IF inb
       THEN IF doc[k] = prefix \o END_TAG
            THEN ClosedBlocks(doc, k + 1, FALSE, <<>>, <<>>,
                   Append(acc, CodeOf([prefix |-> prefix, body |-> body])))
            ELSE ClosedBlocks(doc, k + 1, TRUE, prefix, Append(body, doc[k]), acc)
       ELSE IF ValidOpener(doc[k])
            THEN ClosedBlocks(doc, k + 1, TRUE, SliceTo(doc[k], LeadLen(doc[k])), <<>>, acc)
            ELSE ClosedBlocks(doc, k + 1, FALSE, <<>>, <<>>, acc)

\* C1: whenever the rendering sub-step succeeds for a closed block with
\* prefix P, run goes on without raising and the block is replaced by the one
\* line P + "![ref](ref)", ref being the block's own override directory joined
\* with the image base name, else the configured extra-copy directory joined
\* with it, else the image path relative to the working directory.
C1_SuccessEmitsImageLine ==
  \A b \in Blocks :
    Rendered(b) =>
      LET base == img_basename(CodeOf(b))
          ref  == IF b.path # None THEN PathJoin(b.path, base)
                  ELSE IF config.extra_copy_path # None
                       THEN PathJoin(config.extra_copy_path, base)
                       ELSE RelPath(generate_image_path(config, CodeOf(b)))
      IN  /\ ~b.raised
          /\ b.upto = b.at + 1
          /\ new_lines[b.upto] = ImageLine(b.prefix, ref)

\* C2: whenever generate_diagram reports failure for a closed block with
\* prefix P and body b1..bn, the block is replaced by exactly n+2 lines: an
\* empty line, each P + four spaces + bi without its first len(P) characters,
\* in order, and an empty line; the scanner is back in the normal state with
\* an empty accumulator, and the next line is scanned as a normal line.
C2_FailureEmitsLiteralBlock ==
  \A b \in Blocks :
    Failed(b) =>
      /\ ~b.raised
      /\ b.upto = b.at + Len(b.body) + 2
      /\ Len(new_lines) >= b.upto
      /\ new_lines[b.at + 1] = <<>>
      /\ \A k \in 1..Len(b.body) :
           new_lines[b.at + 1 + k] = b.prefix \o INDENT \o SliceFrom(b.body[k], Len(b.prefix))
      /\ new_lines[b.upto] = <<>>
      /\ i = b.closer + 1 => ~in_diagram /\ ditaa_lines = <<>>
      /\ i = b.closer + 2 =>
           IF in_diagram THEN opened.line = b.closer + 1 /\ Len(new_lines) = b.upto
           ELSE Len(new_lines) = b.upto + 1

\* C2, witness: a block with a prefix and a body line fell back to literal
\* text and run returned after scanning a further line.
C2_Witness ==
  /\ pc = "returned"
  /\ \E b \in Blocks :
       Failed(b) /\ b.prefix # <<>> /\ Len(b.body) >= 1 /\ b.closer < Len(lines)

\* C3: generate_diagram never raises.
C3_GenerateDiagramNeverRaises == \A b \in Blocks : ~b.gen_raised

\* C4: no temporary file of a rendering attempt exists once generate_diagram
\* is left.
C4_TemporaryFilesDeleted == tmpfiles = {}

\* C5: a line scanned in the normal state that is not a valid opener is
\* appended to the output unchanged and starts no block.
C5_NonOpenerPassesUnchanged ==
  [][(pc = "scan" /\ ~in_diagram /\ i <= Len(lines) /\ ~ValidOpener(lines[i]))
       => (new_lines' = Append(new_lines, lines[i]) /\ ~in_diagram')]_vars

\* C6: once a block is closed the pending path override is cleared, and the
\* image line of a block whose own opener has no path= annotation is not
\* built from the annotation of an earlier line.
C6_OverrideOnlyForItsBlock ==
  \A b \in Blocks :
    ~b.raised =>
      /\ i = b.closer + 1 => path_override = None
      /\ (Rendered(b) /\ b.path = None) =>
           \A k \in 1..(b.opener - 1) :
             Annotated(lines[k]) =>
               new_lines[b.upto] #
                 ImageLine(b.prefix, PathJoin(Annotation(lines[k]), img_basename(CodeOf(b))))

\* C7: when rendering succeeds for a block whose opener carries path=<dir>,
\* a copy of the image into <dir> is attempted.
C7_CopyIntoOverrideDirectory ==
  \A b \in Blocks :
    (Rendered(b) /\ b.path # None) =>
      \E k \in 1..Len(b.copy) : b.copy[k].dst = b.path

\* The value of a setting by the precedence environment over keyword
\* argument over built-in default.
Resolved(var, key, default) ==
  IF var \in DOMAIN environ THEN environ[var] ELSE Get(kwargs, key, default)

\* C8: the configuration the preprocessor receives holds, for the command
\* and the image directory, the environment value if the variable is set,
\* else the keyword argument of the caller, else the built-in default.
C8_EnvironmentTakesPrecedence ==
  pc = "scan" =>
    /\ config.ditaa_cmd = Resolved("DITAA_CMD", "ditaa_cmd", DEFAULT_CMD)
    /\ config.ditaa_image_dir =
         Resolved("DITAA_IMAGE_DIR", "ditaa_image_dir", DEFAULT_IMAGE_DIR)

\* C9: when run is over, generate_diagram has been called exactly once for
\* each closed diagram block of the document and for nothing else, in
\* document order, each call with the block body lines without their prefix,
\* joined by newlines.
C9_OneCallPerClosedBlock ==
  pc \in {"returned", "raised"} =>
    calls = ClosedBlocks(lines, 1, FALSE, <<>>, <<>>, <<>>)

\* C10: a block ends only at a line equal to its prefix + three backticks
\* and holds every line between its opener and that line; while a block is
\* open nothing is emitted and nothing is rendered for it, so that at the end
\* of the input the output is the output of the lines before the opener.
C10_OnlyExactCloserEndsBlock ==
  /\ \A b \in Blocks :
       /\ lines[b.closer] = b.prefix \o END_TAG
       /\ b.body = SubSeq(lines, b.opener + 1, b.closer - 1)
       /\ \A k \in (b.opener + 1)..(b.closer - 1) : lines[k] # b.prefix \o END_TAG
  /\ (pc \in {"scan", "returned"} /\ in_diagram) =>
       /\ new_lines = opened.out
       /\ ditaa_lines = SubSeq(lines, opened.line + 1, i - 1)
       /\ \A k \in (opened.line + 1)..(i - 1) : lines[k] # ditaa_prefix \o END_TAG
       /\ \A b \in Blocks : b.opener # opened.line
       /\ Len(calls) = Len(blocks)

\* C10, witness: the input ended inside a block opened after some output,
\* whose body holds a line that looks like an opener and a closer with
\* another prefix.
C10_Witness ==
  /\ pc = "returned" /\ in_diagram
  /\ opened.out # <<>>
  /\ ditaa_prefix # <<>>
  /\ \E k \in 1..Len(ditaa_lines) : ditaa_lines[k] = END_TAG
  /\ \E k \in 1..Len(ditaa_lines) : IsOpener(ditaa_lines[k])

====
